---- MODULE Spec2Model ----
(***************************************************************************)
(* The idempotent operation control plane of api_requests/base_request.py: *)
(* BaseRequest.idempotent_operation and the queries it sends to the        *)
(* operations table, run by several request handlers against one table.    *)
(* Every query is one transaction (DatabaseClient.query opens a connection *)
(* and commits), so every query is one atomic step and the handlers        *)
(* interleave between their queries.                                        *)
(***************************************************************************)
EXTENDS Integers, Sequences, FiniteSets, TLC

\* ---- bounds of the model ----
NumCallers == 2      \* concurrent request handlers
MaxCalls == 5        \* calls of idempotent_operation begun in one behaviour
MaxTime == 2         \* the clock runs over 0..MaxTime days
MaxServices == 2     \* track_published_service calls made for one record

\* ---- program constants ----
MaxRetries == 3            \* max_retries in _handle_existing_operation
OperationTimeoutDays == 1  \* operation_timeout_hours = 24, in days

Callers == 1..NumCallers
Keys == {1}                \* the (request_id, operation_type) fingerprints called
DaysOldValues == {0, 1}    \* arguments given to cleanup_expired_operations
FnModes == {"succeeds", "always_raises", "raises_twice"}
ServiceInfos == {"feature_service", "map_service"}  \* service_info arguments

NullTime == -1               \* SQL NULL in a TIMESTAMP column
NullJson == [null |-> TRUE]  \* SQL NULL in a JSONB column
NoOperation == 0             \* Python None where an operation_id is expected
NoneReturned == -1           \* Python None where a count is expected

\* OperationStatus
QUEUED == "queued"
RUNNING == "running"
COMPLETED == "completed"
FAILED == "failed"
EXPIRED == "expired"

VARIABLES
    operations,    \* the table: operation_id -> row
    nextId,        \* the next value of gen_random_uuid()
    now,           \* CURRENT_TIMESTAMP, in days
    fnMode,        \* how operation_func behaves in this behaviour
    calls,         \* per fingerprint: invocations of operation_func so far
    started,       \* calls of idempotent_operation begun so far
    anyForced,     \* some call so far had force_new = True
    lastCleanup,   \* the last run of cleanup_expired_operations: when it
                   \* ran (NullTime: never) and what it returned
    pc,            \* per handler: where it is inside idempotent_operation
    request_id,    \* per handler: self.request_id of the current call
    force_new,     \* per handler: the current call's force_new
    operation_id,  \* per handler: self.operation_id / the existing row's id
    attempt,       \* per handler: which invocation of operation_func it runs
    invoked,       \* per handler: the current call has invoked operation_func
    fault,         \* per handler: the store calls that failed in this call
    outcome,       \* per handler: what the last call returned or raised
    enable_idempotency,  \* self.enable_idempotency of the handlers
    fingerprints   \* _generate_request_id at work: an operation_type, two
                   \* parameter structures and the request ids made of them

vars == <<operations, nextId, now, fnMode, calls, started, anyForced,
          lastCleanup, pc,
          request_id, force_new, operation_id, attempt, invoked, fault,
          outcome, enable_idempotency, fingerprints>>

\* ---- outcomes of idempotent_operation ----
Outcome(kind, id, result) == [kind |-> kind, operation_id |-> id, result |-> result]
NeverCalled == Outcome("never", NoOperation, NullJson)
Pending == Outcome("pending", NoOperation, NullJson)

\* ---- operation_func ----
\* The n-th invocation raises or returns a response whose JSON body is n.
OperationFuncRaises(mode, n) ==
    \/ mode = "always_raises"
    \/ mode = "raises_twice" /\ n <= 2

OperationFuncResponse(n) == [status_code |-> 200, body |-> [value |-> n]]

\* _extract_result_data: the parsed JSON body of the response
ExtractResultData(response) == response.body

\* error_details built in the except branch of idempotent_operation
ErrorDetails(n, t) == [error |-> n, error_type |-> "Exception", timestamp |-> t]

\* ---- _generate_request_id ----
\* Text is a sequence of character codes.
Quote == <<34>>
Colon == <<58>>
ItemSeparator == <<44, 32>>   \* ", "
KeySeparator == <<58, 32>>    \* ": "
OpenBrace == <<123>>
CloseBrace == <<125>>
Digits(n) == <<48 + n>>       \* str(n) for a one-digit n

\* The values a parameter structure is made of: a number, a string, a dict
\* (its items in insertion order, the keys strings) and an object of a class
\* json does not know, which prints as str(object).
IntValue(n) == [t |-> "int", text |-> Digits(n), items |-> <<>>]
StrValue(text) == [t |-> "str", text |-> text, items |-> <<>>]
ObjectValue(text) == [t |-> "object", text |-> text, items |-> <<>>]
DictValue(items) == [t |-> "dict", text |-> <<>>, items |-> items]

\* the dicts of at most two items with keys from keys and values from values
DictsOver(keys, values) ==
    {DictValue(<<>>)}
        \cup {DictValue(<<<<k, v>>>>) : k \in keys, v \in values}
        \cup {DictValue(<<<<k[1], v[1]>>, <<k[2], v[2]>>>>) :
                k \in {kk \in keys \X keys : kk[1] # kk[2]},
                v \in values \X values}

KeyNames == {<<97>>, <<98>>}                       \* "a", "b"
Scalars == {IntValue(1), StrValue(Digits(1)), ObjectValue(Digits(1))}
InnerDicts == DictsOver(KeyNames, {IntValue(1)})
ParameterSets == DictsOver(KeyNames, Scalars \cup InnerDicts)
OperationTypes == {<<115>>}                        \* "s", as in "stage"

\* a < b for two texts, as Python orders strings
RECURSIVE TextLess(_, _)
TextLess(a, b) ==
    IF a = <<>> THEN b # <<>>
    ELSE IF b = <<>> THEN FALSE
    ELSE IF Head(a) # Head(b) THEN Head(a) < Head(b)
    ELSE TextLess(Tail(a), Tail(b))

\* (variant: sort_keys = False, the items stay in insertion order)
ItemsUnsorted(items) == items

\* sort_keys = True: the items of a dict in the order of their keys
RECURSIVE SortedItems(_)
SortedItems(items) ==
    IF items = <<>> THEN <<>>
    ELSE LET least == CHOOSE i \in 1..Len(items) :
                        \A j \in 1..Len(items) :
                            j # i => TextLess(items[i][1], items[j][1])
             rest == [j \in 1..(Len(items) - 1) |->
                        IF j < least THEN items[j] ELSE items[j + 1]]
         IN <<items[least]>> \o SortedItems(rest)

\* json.dumps(value, sort_keys=True, default=str): default is called on the
\* object json cannot encode, and the string it returns is encoded.
RECURSIVE JsonDumps(_)
RECURSIVE JoinItems(_)
JoinItems(items) ==
    IF items = <<>> THEN <<>>
    ELSE Quote \o items[1][1] \o Quote \o KeySeparator \o JsonDumps(items[1][2])
         \o (IF Len(items) = 1 THEN <<>> ELSE ItemSeparator)
         \o JoinItems(Tail(items))

JsonDumps(value) ==
    CASE value.t = "int" -> value.text
      [] value.t = "str" -> Quote \o value.text \o Quote
      [] value.t = "object" -> Quote \o value.text \o Quote
      [] value.t = "dict" ->
            OpenBrace \o JoinItems(SortedItems(value.items)) \o CloseBrace

\* hashlib.sha256(...).hexdigest(), taken as free of collisions; raised is
\* FALSE for a call that returns its digest
Sha256(text) == [raised |-> FALSE, sha256 |-> text]

GenerateRequestIdOf(operation_type, parameters) ==
    Sha256(operation_type \o Colon \o JsonDumps(parameters))

NoFingerprints ==
    [operation_type |-> <<>>, parameters |-> <<>>, request_id |-> <<>>]

\* ---- the table ----
Ids == DOMAIN operations

NewRow(k, t) ==
    [request_id |-> k, operation_status |-> QUEUED, started_at |-> t,
     queued_at |-> t, processing_started_at |-> NullTime,
     completed_at |-> NullTime, expires_at |-> t + OperationTimeoutDays,
     result |-> NullJson, error_details |-> NullJson, retry_count |-> 0,
     published_services |-> <<>>]

\* (variant: the table has no unique_request constraint)
UniqueRequestNotEnforced(k) == FALSE

\* CONSTRAINT unique_request UNIQUE (request_id, operation_type)
\* (variant: the constraint covers the rows that are not expired only)
UniqueRequestAmongLive(k) ==
    \E i \in Ids : /\ operations[i].request_id = k
                   /\ operations[i].expires_at > now

UniqueRequestViolated(k) == \E i \in Ids : operations[i].request_id = k

\* the SELECT of _get_existing_operation: the rows it matches
NotExpired(row, t) == row.expires_at > t
MatchingRows(k) ==
    {i \in Ids : operations[i].request_id = k /\ NotExpired(operations[i], now)}

\* ORDER BY started_at DESC LIMIT 1 (NoOperation when the result is empty)
SelectExisting(k) ==
    IF MatchingRows(k) = {} THEN NoOperation
    ELSE CHOOSE i \in MatchingRows(k) :
            \A j \in MatchingRows(k) :
                operations[j].started_at <= operations[i].started_at

\* UPDATE ... WHERE operation_id = id: no row, no change
UpdateRow(id, row) ==
    IF id \in Ids THEN [operations EXCEPT ![id] = row] ELSE operations

InsertRow(id, row) ==
    [i \in Ids \cup {id} |-> IF i = id THEN row ELSE operations[i]]

InitStore ==
    /\ operations = <<>>
    /\ nextId = 1
    /\ now = 0
    /\ fnMode \in FnModes
    /\ calls = [k \in Keys |-> 0]
    /\ started = 0
    /\ anyForced = FALSE
    /\ lastCleanup = [at |-> NullTime, returned |-> NoneReturned]
    /\ pc = [c \in Callers |-> "idle"]
    /\ request_id = [c \in Callers |-> 1]
    /\ force_new = [c \in Callers |-> FALSE]
    /\ operation_id = [c \in Callers |-> NoOperation]
    /\ attempt = [c \in Callers |-> 0]
    /\ invoked = [c \in Callers |-> FALSE]
    /\ fault = [c \in Callers |-> {}]
    /\ outcome = [c \in Callers |-> NeverCalled]

\* __init__ has reached the store: DatabaseClient.from_vault and
\* _ensure_operations_table succeeded.
Init ==
    /\ InitStore
    /\ enable_idempotency = TRUE
    /\ fingerprints = NoFingerprints

\* A handler returns from idempotent_operation.
Return(c, o) ==
    /\ pc' = [pc EXCEPT ![c] = "idle"]
    /\ outcome' = [outcome EXCEPT ![c] = o]

\* (variant: the check of enable_idempotency is missing)
CallIdempotencyAssumed(c) ==
    /\ pc[c] = "idle"
    /\ started < MaxCalls
    /\ \E k \in Keys, f \in BOOLEAN :
        /\ request_id' = [request_id EXCEPT ![c] = k]
        /\ force_new' = [force_new EXCEPT ![c] = f]
        /\ anyForced' = (anyForced \/ f)
        /\ pc' = [pc EXCEPT ![c] = IF f THEN "start" ELSE "lookup"]
    /\ started' = started + 1
    /\ operation_id' = [operation_id EXCEPT ![c] = NoOperation]
    /\ attempt' = [attempt EXCEPT ![c] = 0]
    /\ invoked' = [invoked EXCEPT ![c] = FALSE]
    /\ fault' = [fault EXCEPT ![c] = {}]
    /\ outcome' = [outcome EXCEPT ![c] = Pending]
    /\ UNCHANGED <<enable_idempotency, fingerprints, lastCleanup, operations,
                   nextId, now, fnMode, calls>>

\* idempotent_operation, lines 155-165: a new request arrives at a handler;
\* with idempotency disabled it goes straight to operation_func.
Call(c) ==
    /\ pc[c] = "idle"
    /\ started < MaxCalls
    /\ \E k \in Keys, f \in BOOLEAN :
        /\ request_id' = [request_id EXCEPT ![c] = k]
        /\ force_new' = [force_new EXCEPT ![c] = f]
        /\ anyForced' = (anyForced \/ f)
        /\ pc' = [pc EXCEPT ![c] = IF ~enable_idempotency THEN "direct"
                                  ELSE IF f THEN "start" ELSE "lookup"]
    /\ started' = started + 1
    /\ operation_id' = [operation_id EXCEPT ![c] = NoOperation]
    /\ attempt' = [attempt EXCEPT ![c] = 0]
    /\ invoked' = [invoked EXCEPT ![c] = FALSE]
    /\ fault' = [fault EXCEPT ![c] = {}]
    /\ outcome' = [outcome EXCEPT ![c] = Pending]
    /\ UNCHANGED <<enable_idempotency, fingerprints, lastCleanup, operations,
                   nextId, now, fnMode, calls>>

\* (variant: the COMPLETED branch is missing and falls through to None)
HandleExistingNoCache(id, row) ==
    CASE row.operation_status = RUNNING -> Outcome("in_progress", id, NullJson)
      [] row.operation_status = FAILED ->
            Outcome("exhausted", id, row.error_details)
      [] OTHER -> Outcome("empty", NoOperation, NullJson)

\* _handle_existing_operation on the row read by _get_existing_operation:
\* what idempotent_operation returns, for the branches that write nothing.
HandleExisting(id, row) ==
    CASE row.operation_status = COMPLETED -> Outcome("cached", id, row.result)
      [] row.operation_status = RUNNING -> Outcome("in_progress", id, NullJson)
      [] row.operation_status = FAILED ->
            Outcome("exhausted", id, row.error_details)
      [] OTHER -> Outcome("empty", NoOperation, NullJson)

\* (variant: the status of the record read is not looked at)
RetryEligibleAnyStatus(row) == row.retry_count < MaxRetries

\* (variant: every record that is not COMPLETED counts as FAILED)
RetryEligibleUnlessCompleted(row) ==
    row.operation_status # COMPLETED /\ row.retry_count < MaxRetries

RetryEligible(row) ==
    row.operation_status = FAILED /\ row.retry_count < MaxRetries

\* (variant: every FAILED row is run again under its operation_id, whatever
\* its retry_count)
GetExistingOperationRetryUnbounded(c) ==
    /\ pc[c] = "lookup"
    /\ LET id == SelectExisting(request_id[c]) IN
        IF id = NoOperation
        THEN /\ pc' = [pc EXCEPT ![c] = "start"]
             /\ UNCHANGED <<operation_id, outcome>>
        ELSE IF operations[id].operation_status = FAILED
        THEN /\ pc' = [pc EXCEPT ![c] = "update_status"]
             /\ operation_id' = [operation_id EXCEPT ![c] = id]
             /\ UNCHANGED outcome
        ELSE /\ Return(c, HandleExisting(id, operations[id]))
             /\ UNCHANGED operation_id
    /\ UNCHANGED <<enable_idempotency, fingerprints, lastCleanup, operations, nextId, now, fnMode, calls, started, anyForced,
                   request_id, force_new, attempt, invoked, fault>>

\* _get_existing_operation and, when a row is found, the return of
\* _handle_existing_operation's result (lines 166-168).
GetExistingOperation(c) ==
    /\ pc[c] = "lookup"
    /\ LET id == SelectExisting(request_id[c]) IN
        IF id = NoOperation
        THEN /\ pc' = [pc EXCEPT ![c] = "start"]
             /\ UNCHANGED <<operation_id, outcome>>
        ELSE IF RetryEligible(operations[id])
        THEN /\ pc' = [pc EXCEPT ![c] = "retry"]
             /\ operation_id' = [operation_id EXCEPT ![c] = id]
             /\ UNCHANGED outcome
        ELSE /\ Return(c, HandleExisting(id, operations[id]))
             /\ UNCHANGED operation_id
    /\ UNCHANGED <<enable_idempotency, fingerprints, lastCleanup, operations, nextId, now, fnMode, calls, started, anyForced,
                   request_id, force_new, attempt, invoked, fault>>

\* (variant: the retry marks the record 'running')
IncrementedRowRunning(row) ==
    [row EXCEPT !.retry_count = @ + 1, !.operation_status = RUNNING]

\* _increment_retry_count, then _handle_existing_operation returns None and
\* idempotent_operation returns that None (line 168).
IncrementedRow(row) ==
    [row EXCEPT !.retry_count = @ + 1, !.operation_status = QUEUED]

IncrementRetryCount(c) ==
    /\ pc[c] = "retry"
    /\ operations' = IF operation_id[c] \in Ids
                     THEN UpdateRow(operation_id[c],
                                    IncrementedRow(operations[operation_id[c]]))
                     ELSE operations
    /\ Return(c, Outcome("empty", NoOperation, NullJson))
    /\ UNCHANGED <<enable_idempotency, fingerprints, lastCleanup, nextId, now, fnMode, calls, started, anyForced, request_id,
                   force_new, operation_id, attempt, invoked, fault>>

\* _start_operation: the INSERT; the exception of a rejected insert
\* propagates out of idempotent_operation.
StartOperation(c) ==
    /\ pc[c] = "start"
    /\ IF UniqueRequestViolated(request_id[c])
       THEN /\ Return(c, Outcome("integrity_error", NoOperation, NullJson))
            /\ UNCHANGED <<operations, nextId, operation_id>>
       ELSE /\ operations' = InsertRow(nextId, NewRow(request_id[c], now))
            /\ operation_id' = [operation_id EXCEPT ![c] = nextId]
            /\ nextId' = nextId + 1
            /\ pc' = [pc EXCEPT ![c] = "update_status"]
            /\ UNCHANGED outcome
    /\ UNCHANGED <<enable_idempotency, fingerprints, lastCleanup, now, fnMode, calls, started, anyForced, request_id,
                   force_new, attempt, invoked, fault>>

\* _update_operation_status(RUNNING), then operation_func is entered.
RunningRow(row, t) ==
    [row EXCEPT !.operation_status = RUNNING, !.processing_started_at = t]

EnterOperationFunc(c) ==
    /\ calls' = [calls EXCEPT ![request_id[c]] = @ + 1]
    /\ attempt' = [attempt EXCEPT ![c] = calls[request_id[c]] + 1]
    /\ invoked' = [invoked EXCEPT ![c] = TRUE]
    /\ pc' = [pc EXCEPT ![c] = "in_operation_func"]

UpdateOperationStatus(c) ==
    /\ pc[c] = "update_status"
    /\ operations' = IF operation_id[c] \in Ids
                     THEN UpdateRow(operation_id[c],
                                    RunningRow(operations[operation_id[c]], now))
                     ELSE operations
    /\ EnterOperationFunc(c)
    /\ UNCHANGED <<enable_idempotency, fingerprints, lastCleanup, nextId, now, fnMode, started, anyForced, request_id,
                   force_new, operation_id, fault, outcome>>

\* _complete_operation: the two UPDATEs
CompletedRow(row, t, data) ==
    [row EXCEPT !.operation_status = COMPLETED, !.completed_at = t,
                !.result = data]

\* (variant: the FAILED branch leaves completed_at alone)
FailedRowNoCompletedAt(row, t, details) ==
    [row EXCEPT !.operation_status = FAILED, !.error_details = details]

FailedRow(row, t, details) ==
    [row EXCEPT !.operation_status = FAILED, !.completed_at = t,
                !.error_details = details]

\* operation_func returns or raises; _complete_operation stores it; the
\* handler returns the response or re-raises (lines 181-203).
CompleteOperation(c) ==
    /\ pc[c] = "in_operation_func"
    /\ LET id == operation_id[c]
           n == attempt[c]
       IN IF OperationFuncRaises(fnMode, n)
          THEN /\ operations' =
                    IF id \in Ids
                    THEN UpdateRow(id, FailedRow(operations[id], now,
                                                 ErrorDetails(n, now)))
                    ELSE operations
               /\ Return(c, Outcome("raised", id, ErrorDetails(n, now)))
          ELSE /\ operations' =
                    IF id \in Ids
                    THEN UpdateRow(id, CompletedRow(operations[id], now,
                                ExtractResultData(OperationFuncResponse(n))))
                    ELSE operations
               /\ Return(c, Outcome("completed", id,
                                ExtractResultData(OperationFuncResponse(n))))
    /\ UNCHANGED <<enable_idempotency, fingerprints, lastCleanup, nextId, now, fnMode, calls, started, anyForced, request_id,
                   force_new, operation_id, attempt, invoked, fault>>

\* cleanup_expired_operations: the DELETE
CleanupDeletes(row, t, days_old) == row.expires_at < t - days_old

\* (variant: a run marks the rows it finds as 'expired' and deletes the
\* rows an earlier run has marked)
DeleteExpiredTwoPhase(ops, t, days_old) ==
    [i \in {j \in DOMAIN ops :
              ~(CleanupDeletes(ops[j], t, days_old)
                /\ ops[j].operation_status = EXPIRED)}
      |-> IF CleanupDeletes(ops[i], t, days_old)
          THEN [ops[i] EXCEPT !.operation_status = EXPIRED]
          ELSE ops[i]]

\* the table after DELETE ... WHERE expires_at < CURRENT_TIMESTAMP - days_old
DeleteExpired(ops, t, days_old) ==
    [i \in {j \in DOMAIN ops : ~CleanupDeletes(ops[j], t, days_old)}
      |-> ops[i]]

\* What cleanup_expired_operations returns: len(result) is only logged (it
\* raises on the True that DatabaseClient.query returns for a DELETE, and the
\* except branch logs that); the method has no return statement.
CleanupReturnValue(deleted) == NoneReturned

CleanupExpiredOperations ==
    /\ \E days_old \in DaysOldValues :
        /\ operations' = DeleteExpired(operations, now, days_old)
        /\ lastCleanup' =
              [at |-> now,
               returned |-> CleanupReturnValue(
                   Ids \ DOMAIN DeleteExpired(operations, now, days_old))]
    /\ UNCHANGED <<enable_idempotency, fingerprints, nextId, now, fnMode, calls, started,
                   anyForced, pc, request_id, force_new, operation_id,
                   attempt, invoked, fault, outcome>>

\* CURRENT_TIMESTAMP advances.
Tick ==
    /\ now < MaxTime
    /\ now' = now + 1
    /\ UNCHANGED <<enable_idempotency, fingerprints, lastCleanup, operations, nextId, fnMode, calls, started, anyForced, pc,
                   request_id, force_new, operation_id, attempt, invoked,
                   fault, outcome>>

Next ==
    \/ \E c \in Callers : Call(c)
    \/ \E c \in Callers : GetExistingOperation(c)
    \/ \E c \in Callers : IncrementRetryCount(c)
    \/ \E c \in Callers : StartOperation(c)
    \/ \E c \in Callers : UpdateOperationStatus(c)
    \/ \E c \in Callers : CompleteOperation(c)
    \/ CleanupExpiredOperations
    \/ Tick

Spec == Init /\ [][Next]_vars

\* ---- the same handlers over a store whose calls can fail ----
\* DatabaseClient.query and DatabaseClient.connect raise on a backend error;
\* each method of BaseRequest handles that exception in its own way.
Failed(c, call) == fault' = [fault EXCEPT ![c] = @ \cup {call}]

\* _get_existing_operation: the except branch logs and the method returns
\* None, so idempotent_operation goes on to _start_operation.
GetExistingOperationFails(c) ==
    /\ pc[c] = "lookup"
    /\ Failed(c, "lookup")
    /\ pc' = [pc EXCEPT ![c] = "start"]
    /\ UNCHANGED <<enable_idempotency, fingerprints, lastCleanup, operations, nextId, now, fnMode, calls, started, anyForced,
                   request_id, force_new, operation_id, attempt, invoked,
                   outcome>>

\* (variant: the except branch logs and returns None instead of raising)
StartOperationFailsSwallowed(c) ==
    /\ pc[c] = "start"
    /\ Failed(c, "insert")
    /\ pc' = [pc EXCEPT ![c] = "update_status"]
    /\ UNCHANGED <<enable_idempotency, fingerprints, lastCleanup, operations, nextId, now, fnMode, calls, started, anyForced,
                   request_id, force_new, operation_id, attempt, invoked,
                   outcome>>

\* _start_operation: the except branches log and re-raise.
StartOperationFails(c) ==
    /\ pc[c] = "start"
    /\ Failed(c, "insert")
    /\ Return(c, Outcome("store_error", NoOperation, NullJson))
    /\ UNCHANGED <<enable_idempotency, fingerprints, lastCleanup, operations, nextId, now, fnMode, calls, started, anyForced,
                   request_id, force_new, operation_id, attempt, invoked>>

\* _update_operation_status: the except branch returns False, which
\* idempotent_operation logs before it calls operation_func.
UpdateOperationStatusFails(c) ==
    /\ pc[c] = "update_status"
    /\ Failed(c, "update_status")
    /\ EnterOperationFunc(c)
    /\ UNCHANGED <<enable_idempotency, fingerprints, lastCleanup, operations, nextId, now, fnMode, started, anyForced,
                   request_id, force_new, operation_id, outcome>>

\* _complete_operation: the except branches return False, which
\* idempotent_operation logs before it returns or re-raises.
CompleteOperationFails(c) ==
    /\ pc[c] = "in_operation_func"
    /\ Failed(c, "complete")
    /\ LET id == operation_id[c]
           n == attempt[c]
       IN IF OperationFuncRaises(fnMode, n)
          THEN Return(c, Outcome("raised", id, ErrorDetails(n, now)))
          ELSE Return(c, Outcome("completed", id,
                                 ExtractResultData(OperationFuncResponse(n))))
    /\ UNCHANGED <<enable_idempotency, fingerprints, lastCleanup, operations, nextId, now, fnMode, calls, started, anyForced,
                   request_id, force_new, operation_id, attempt, invoked>>

\* _increment_retry_count: the except branch logs only.
IncrementRetryCountFails(c) ==
    /\ pc[c] = "retry"
    /\ Failed(c, "increment_retry")
    /\ Return(c, Outcome("empty", NoOperation, NullJson))
    /\ UNCHANGED <<enable_idempotency, fingerprints, lastCleanup, operations, nextId, now, fnMode, calls, started, anyForced,
                   request_id, force_new, operation_id, attempt, invoked>>

NextFault ==
    \/ Next
    \/ \E c \in Callers : GetExistingOperationFails(c)
    \/ \E c \in Callers : StartOperationFails(c)
    \/ \E c \in Callers : UpdateOperationStatusFails(c)
    \/ \E c \in Callers : CompleteOperationFails(c)
    \/ \E c \in Callers : IncrementRetryCountFails(c)

SpecFault == Init /\ [][NextFault]_vars

\* ---- the same handlers when operation_func publishes services ----
\* (variant: SET published_services = %s::jsonb)
TrackedRowOverwritten(row, service_info) ==
    [row EXCEPT !.published_services = <<service_info>>]

\* SET published_services = published_services || %s::jsonb, with the JSON
\* object of service_info: the array with that object added at its end
TrackedRow(row, service_info) ==
    [row EXCEPT !.published_services = Append(@, service_info)]

\* track_published_service, called by the handler's own code once
\* self.operation_id is set (line 171): inside operation_func or after
\* idempotent_operation has returned.
TrackPublishedService(c) ==
    /\ invoked[c]
    /\ operation_id[c] # NoOperation
    /\ operation_id[c] \in Ids
           => Len(operations[operation_id[c]].published_services) < MaxServices
    /\ \E service_info \in ServiceInfos :
        operations' = IF operation_id[c] \in Ids
                      THEN UpdateRow(operation_id[c],
                                     TrackedRow(operations[operation_id[c]],
                                                service_info))
                      ELSE operations
    /\ UNCHANGED <<enable_idempotency, fingerprints, lastCleanup, nextId, now, fnMode, calls, started, anyForced,
                   pc, request_id, force_new, operation_id, attempt, invoked,
                   fault, outcome>>

NextLedger ==
    \/ Next
    \/ \E c \in Callers : TrackPublishedService(c)

SpecLedger == Init /\ [][NextLedger]_vars

\* ---- _generate_request_id on its own ----
\* idempotent_operation, lines 159-162, for two calls with the same
\* operation_type: the request ids of their parameters.
InitFingerprint ==
    /\ InitStore
    /\ enable_idempotency = TRUE
    /\ \E T \in OperationTypes, P \in ParameterSets \X ParameterSets :
        fingerprints = [operation_type |-> T, parameters |-> P,
                        request_id |-> <<>>]

GenerateRequestId ==
    /\ fingerprints.request_id = <<>>
    /\ fingerprints.parameters # <<>>
    /\ fingerprints' =
          [fingerprints EXCEPT !.request_id =
              <<GenerateRequestIdOf(fingerprints.operation_type,
                                    fingerprints.parameters[1]),
                GenerateRequestIdOf(fingerprints.operation_type,
                                    fingerprints.parameters[2])>>]
    /\ UNCHANGED <<operations, nextId, now, fnMode, calls, started, anyForced,
                   lastCleanup, pc, request_id, force_new, operation_id,
                   attempt, invoked, fault, outcome, enable_idempotency>>

NextFingerprint == GenerateRequestId

SpecFingerprint == InitFingerprint /\ [][NextFingerprint]_vars

\* ---- handlers whose constructor could not reach the store ----
\* __init__: DatabaseClient.from_vault or _ensure_operations_table raised, so
\* log_db is None and enable_idempotency is False.
InitDisabled ==
    /\ InitStore
    /\ enable_idempotency = FALSE
    /\ fingerprints = NoFingerprints

\* idempotent_operation, lines 155-157: return operation_func()
OperationFuncDirect(c) ==
    /\ pc[c] = "direct"
    /\ calls' = [calls EXCEPT ![request_id[c]] = @ + 1]
    /\ attempt' = [attempt EXCEPT ![c] = calls[request_id[c]] + 1]
    /\ invoked' = [invoked EXCEPT ![c] = TRUE]
    /\ LET n == calls[request_id[c]] + 1 IN
        IF OperationFuncRaises(fnMode, n)
        THEN Return(c, Outcome("raised", NoOperation, ErrorDetails(n, now)))
        ELSE Return(c, Outcome("completed", NoOperation,
                               ExtractResultData(OperationFuncResponse(n))))
    /\ UNCHANGED <<enable_idempotency, fingerprints, lastCleanup, operations,
                   nextId, now, fnMode, started, anyForced, request_id,
                   force_new, operation_id, fault>>

NextDisabled ==
    \/ \E c \in Callers : Call(c)
    \/ \E c \in Callers : OperationFuncDirect(c)
    \/ Tick

SpecDisabled == InitDisabled /\ [][NextDisabled]_vars

\* ---- vocabulary of the properties ----
AllIdle == \A c \in Callers : pc[c] = "idle"

\* no row has been removed by cleanup_expired_operations
NoRowDeleted == Cardinality(Ids) = nextId - 1

\* every record written so far is still there and not expired
InWindow == NoRowDeleted /\ \A i \in Ids : operations[i].expires_at > now

\* only handler c has made calls, so its calls are sequential
SoleCaller(c) == \A d \in Callers \ {c} : outcome[d].kind = "never"

\* handler c's lookup step reads the non-expired row i of its fingerprint
FindsRow(c, i) ==
    /\ pc[c] = "lookup"
    /\ pc'[c] # "lookup"
    /\ i \in Ids
    /\ operations[i].request_id = request_id[c]
    /\ operations[i].expires_at > now

\* handler d is executing the operation of row i
Executing(d, i) ==
    /\ operation_id[d] = i
    /\ pc[d] \in {"update_status", "in_operation_func"}

\* a store call of handler c fails in this step
NewFault(c, call) == call \in fault'[c] /\ call \notin fault[c]

\* C1: as long as no record has been deleted, operation_func has been invoked
\* at most once for a fingerprint, and exactly once when every handler that
\* was called with it has returned, whatever the interleaving of the handlers'
\* lookups, inserts and status updates.
C1_AtMostOnce ==
    \A k \in Keys :
        NoRowDeleted =>
            /\ calls[k] <= 1
            /\ (AllIdle /\ (\E c \in Callers : /\ outcome[c].kind # "never"
                                                /\ request_id[c] = k))
                   => calls[k] = 1

\* two non-forced calls raced: both looked up before either inserted
C1_Witness ==
    \E c, d \in Callers :
        /\ c # d /\ started = 2 /\ ~anyForced /\ AllIdle
        /\ request_id[c] = request_id[d]
        /\ outcome[c].kind = "completed"
        /\ outcome[d].kind = "integrity_error"
        /\ calls[request_id[c]] = 1

C3_InProgressWhileExecuting ==
    [][\A c \in Callers : \A i \in Ids :
        (/\ FindsRow(c, i)
         /\ operations[i].operation_status \in {QUEUED, RUNNING}
         /\ \E d \in Callers \ {c} : Executing(d, i))
        => /\ pc'[c] = "idle"
           /\ outcome'[c] = Outcome("in_progress", i, NullJson)
           /\ ~invoked'[c]]_vars

\* C4: a non-forced call made while the fingerprint's record is not expired
\* never ends with the unique-constraint violation of a lost insert race.
C4_ConflictNotSurfaced ==
    \A c \in Callers :
        (/\ pc[c] = "idle" /\ ~force_new[c]
         /\ \E i \in Ids : /\ operations[i].request_id = request_id[c]
                           /\ operations[i].expires_at > now)
        => outcome[c].kind # "integrity_error"

\* C5: a call that found a FAILED record with retries left does not return
\* before it has invoked operation_func again under the record's
\* operation_id, and it returns that attempt's outcome.
C5_RetryInSameCall ==
    [][\A c \in Callers :
        (pc[c] = "retry" /\ pc'[c] = "idle")
        => /\ invoked'[c]
           /\ outcome'[c].kind \in {"completed", "raised"}
           /\ outcome'[c].operation_id = operation_id[c]]_vars

\* C6: with an operation_func that always raises, non-forced calls within
\* the record's non-expired window invoke operation_func at most
\* max_retries + 1 times.
C6_RetryBound ==
    (fnMode = "always_raises" /\ ~anyForced /\ InWindow)
    => \A k \in Keys : calls[k] <= MaxRetries + 1

\* MaxCalls identical calls were made against the always-raising function
C6_Witness ==
    /\ fnMode = "always_raises" /\ ~anyForced /\ InWindow
    /\ started = MaxCalls /\ AllIdle
    /\ \E i \in Ids : /\ operations[i].retry_count >= 1
                      /\ calls[operations[i].request_id] >= 1

\* C7: with an operation_func that always raises, sequential identical
\* non-forced calls exhaust the retries: the call after max_retries + 1
\* attempts returns the exhausted outcome without invoking operation_func.
C7_ExhaustedOutcome ==
    \A c \in Callers :
        (/\ fnMode = "always_raises" /\ ~anyForced /\ InWindow
         /\ SoleCaller(c) /\ pc[c] = "idle"
         /\ started = MaxRetries + 2)
        => /\ outcome[c].kind = "exhausted"
           /\ ~invoked[c]
           /\ \E i \in Ids : /\ operations[i].operation_status = FAILED
                             /\ operations[i].retry_count = MaxRetries

\* C8: with an operation_func that raises twice and then succeeds, sequential
\* identical non-forced calls return failed, failed, completed, and the
\* fourth returns the cached completed result without invoking it.
C8_ScenarioC ==
    \A c \in Callers :
        (/\ fnMode = "raises_twice" /\ ~anyForced /\ InWindow
         /\ SoleCaller(c) /\ pc[c] = "idle")
        => /\ started \in {1, 2} => outcome[c].kind = "raised"
           /\ started = 3 => outcome[c].kind = "completed"
           /\ started = 4 => (outcome[c].kind = "cached" /\ ~invoked[c])

\* C9: when operation_func raises in the handler that inserted the record,
\* the step that ends the call leaves the record FAILED with error_details
\* and completed_at set, and the call ends by re-raising.
C9_FailurePersisted ==
    [][\A c \in Callers :
        (/\ pc[c] = "in_operation_func" /\ pc'[c] = "idle"
         /\ OperationFuncRaises(fnMode, attempt[c])
         /\ operation_id[c] \in Ids)
        => /\ operation_id[c] \in DOMAIN operations'
           /\ operations'[operation_id[c]].operation_status = FAILED
           /\ operations'[operation_id[c]].error_details
                = ErrorDetails(attempt[c], now)
           /\ operations'[operation_id[c]].completed_at = now
           /\ outcome'[c].kind = "raised"]_vars

\* a handler's operation_func raised and its record is FAILED
C9_Witness ==
    \E c \in Callers :
        /\ pc[c] = "idle" /\ outcome[c].kind = "raised"
        /\ operation_id[c] \in Ids
        /\ operations[operation_id[c]].operation_status = FAILED
        /\ operations[operation_id[c]].error_details # NullJson
        /\ operations[operation_id[c]].completed_at # NullTime

CleanupStep ==
    /\ lastCleanup'.at = now
    /\ <<now, pc, nextId, calls>>' = <<now, pc, nextId, calls>>
    /\ (lastCleanup' # lastCleanup \/ operations' # operations)

\* the rows the step removes
Removed == Ids \ DOMAIN operations'

\* the store holds rows of fingerprint k and every one of them is expired
OnlyExpiredRows(k) ==
    /\ \E i \in Ids : operations[i].request_id = k
    /\ \A i \in Ids : operations[i].request_id = k
                        => ~NotExpired(operations[i], now)

\* handler c leaves its insert step with a new record
InsertsNewRecord(c) ==
    /\ pc'[c] = "update_status"
    /\ nextId \in DOMAIN operations'
    /\ operations'[nextId].request_id = request_id[c]
    /\ operation_id'[c] = nextId

\* C11: no step removes a record whose status is RUNNING, however long ago
\* its expires_at passed.
C11_RunningNeverDeleted ==
    [][\A i \in Ids :
        operations[i].operation_status = RUNNING
        => i \in DOMAIN operations']_vars

\* C12: a non-forced call that comes to its insert when the fingerprint's
\* only records are expired (the handler's calls are sequential, so its lookup
\* passed over them) is treated as a first call: the insert creates a new
\* record, from which operation_func is entered.
C12_ExpiredTreatedAsAbsent ==
    [][\A c \in Callers :
        (/\ pc[c] = "start" /\ pc'[c] # "start" /\ ~force_new[c]
         /\ SoleCaller(c)
         /\ OnlyExpiredRows(request_id[c]))
        => InsertsNewRecord(c)]_vars

\* C13: when every record of the fingerprint had expired before the last
\* cleanup run, the insert of a non-forced call (the handler's calls are
\* sequential) creates a new record.
C13_ExpiryReset ==
    [][\A c \in Callers :
        (/\ pc[c] = "start" /\ pc'[c] # "start" /\ ~force_new[c]
         /\ SoleCaller(c)
         /\ lastCleanup.at # NullTime
         /\ \A i \in Ids : operations[i].request_id = request_id[c]
                             => operations[i].expires_at < lastCleanup.at)
        => InsertsNewRecord(c)]_vars

\* C17: a cleanup run directly after a cleanup run with the same days_old
\* removes nothing more and leaves every record the first run left.
C17_CleanupIdempotent ==
    [][\A days_old \in DaysOldValues :
        (CleanupStep /\ operations' = DeleteExpired(operations, now, days_old))
        => DeleteExpired(operations', now, days_old) = operations']_vars

\* a cleanup run at the current time has removed a record and another record
\* of the fingerprint is in the store
C17_Witness ==
    /\ lastCleanup.at = now
    /\ ~NoRowDeleted
    /\ Ids # {}

\* C18: a cleanup run returns the number of records it removed (0 when it
\* removed none), removes only COMPLETED, FAILED or EXPIRED records and leaves
\* the others as they were.
C18_CleanupReturnsCount ==
    [][CleanupStep
        => /\ lastCleanup'.returned = Cardinality(Removed)
           /\ \A i \in Removed :
                operations[i].operation_status \in {COMPLETED, FAILED, EXPIRED}
           /\ \A i \in Ids \ Removed : operations'[i] = operations[i]]_vars

\* ---- concurrency ----
\* C19: no two handlers are inside operation_func for the same fingerprint at
\* the same time.
C19_MutualExclusion ==
    \A c, d \in Callers :
        (/\ c # d
         /\ pc[c] = "in_operation_func" /\ pc[d] = "in_operation_func")
        => request_id[c] # request_id[d]

\* C20: retry_count never exceeds max_retries, and a step that raises it
\* finds the record FAILED with retry_count below max_retries, adds one and
\* sets the status to QUEUED.
C20_ConditionalIncrement ==
    /\ [](\A i \in Ids : operations[i].retry_count <= MaxRetries)
    /\ [][\A i \in Ids :
            (i \in DOMAIN operations'
             /\ operations'[i].retry_count # operations[i].retry_count)
            => /\ operations[i].operation_status = FAILED
               /\ operations[i].retry_count < MaxRetries
               /\ operations'[i].retry_count = operations[i].retry_count + 1
               /\ operations'[i].operation_status = QUEUED]_vars

\* ---- the ledger of published services ----
\* C16: a step leaves the published_services of a record that stays in the
\* store as they were or with one entry added at the end; the updates to
\* RUNNING, COMPLETED, FAILED and the retry increment are such steps too.
C16_LedgerAppendOnly ==
    [][\A i \in Ids :
        i \in DOMAIN operations'
        => \/ operations'[i].published_services
                = operations[i].published_services
           \/ \E service_info \in ServiceInfos :
                operations'[i].published_services
                    = Append(operations[i].published_services, service_info)]_vars

\* a record with MaxServices tracked services, the last one added after the
\* first, whose operation_func then failed
C16_Witness ==
    \E i \in Ids :
        /\ operations[i].operation_status = FAILED
        /\ Len(operations[i].published_services) = MaxServices
        /\ operations[i].published_services[1]
             # operations[i].published_services[MaxServices]

\* ---- fingerprints ----
\* two structures that differ at most in the order of the keys of their
\* dicts, at any depth
RECURSIVE EqualUpToKeyOrder(_, _)
EqualUpToKeyOrder(p, q) ==
    /\ p.t = q.t
    /\ p.text = q.text
    /\ Len(p.items) = Len(q.items)
    /\ \A i \in 1..Len(p.items) : \E j \in 1..Len(q.items) :
        /\ p.items[i][1] = q.items[j][1]
        /\ EqualUpToKeyOrder(p.items[i][2], q.items[j][2])

\* the structure holds an object json cannot encode
RECURSIVE HasObject(_)
HasObject(p) ==
    \/ p.t = "object"
    \/ \E i \in 1..Len(p.items) : HasObject(p.items[i][2])

Generated == fingerprints.request_id # <<>>

\* what a call that raises a fingerprint error leaves instead of a request id
FingerprintError == [raised |-> TRUE, sha256 |-> <<>>]

\* C14: two parameter structures that are equal up to the order of the keys
\* of their dicts, at any depth, get the same request id for the same
\* operation_type.
C14_FingerprintDeterminism ==
    (Generated /\ EqualUpToKeyOrder(fingerprints.parameters[1],
                                     fingerprints.parameters[2]))
    => fingerprints.request_id[1] = fingerprints.request_id[2]

\* request ids were made of two structures whose keys are in a different
\* order both at the top and inside a nested dict
C14_Witness ==
    /\ Generated
    /\ EqualUpToKeyOrder(fingerprints.parameters[1], fingerprints.parameters[2])
    /\ Len(fingerprints.parameters[1].items) = 2
    /\ fingerprints.parameters[1].items[1][1]
         # fingerprints.parameters[2].items[1][1]
    /\ \E i, j \in 1..2 :
        /\ Len(fingerprints.parameters[1].items[i][2].items) = 2
        /\ fingerprints.parameters[1].items[i][1]
             = fingerprints.parameters[2].items[j][1]
        /\ fingerprints.parameters[1].items[i][2]
             # fingerprints.parameters[2].items[j][2]
    /\ fingerprints.request_id[1] = fingerprints.request_id[2]

\* C15: for parameters that hold an object json cannot encode, the call
\* raises a fingerprint error and no request id is made of them.
C15_FingerprintFailsClosed ==
    \A n \in 1..2 :
        (Generated /\ HasObject(fingerprints.parameters[n]))
        => fingerprints.request_id[n] = FingerprintError

\* ---- the fields of a record ----
\* C21: result is set exactly on COMPLETED records and error_details exactly
\* on FAILED records, a record reset to QUEUED for a retry included.
C21_ResultAndErrorMatchStatus ==
    \A i \in Ids :
        /\ operations[i].result # NullJson
            <=> operations[i].operation_status = COMPLETED
        /\ operations[i].error_details # NullJson
            <=> operations[i].operation_status = FAILED

\* C22: when operation_func returns normally in the handler that inserted
\* the record, the step that ends the call leaves the record COMPLETED with
\* result and completed_at set, also when a store write of the call failed.
C22_SuccessPersisted ==
    [][\A c \in Callers :
        (/\ pc[c] = "in_operation_func" /\ pc'[c] = "idle"
         /\ ~OperationFuncRaises(fnMode, attempt[c])
         /\ operation_id[c] \in Ids)
        => /\ operation_id[c] \in DOMAIN operations'
           /\ operations'[operation_id[c]].operation_status = COMPLETED
           /\ operations'[operation_id[c]].result
                = ExtractResultData(OperationFuncResponse(attempt[c]))
           /\ operations'[operation_id[c]].completed_at = now]_vars

\* ---- status changes ----
\* the step changes the status of record i from status a to status b
StatusChange(i, a, b) ==
    /\ operations[i].operation_status = a
    /\ operations'[i].operation_status = b

\* the changes along QUEUED -> RUNNING -> COMPLETED or FAILED, and the retry
\* FAILED -> QUEUED of a record with retries left
OrderedChange(i) ==
    \/ StatusChange(i, QUEUED, RUNNING)
    \/ StatusChange(i, RUNNING, COMPLETED)
    \/ StatusChange(i, RUNNING, FAILED)
    \/ /\ StatusChange(i, FAILED, QUEUED)
       /\ operations[i].retry_count < MaxRetries

StatusChanged(i) ==
    /\ i \in DOMAIN operations'
    /\ operations'[i].operation_status # operations[i].operation_status

LiveRecords(k) ==
    {i \in Ids : operations[i].request_id = k /\ NotExpired(operations[i], now)}

\* C24: at most one non-expired record exists for a fingerprint, whatever
\* the interleaving of inserts, forced calls, retries and cleanup.
C24_OneLiveRecord ==
    \A k \in Keys : Cardinality(LiveRecords(k)) <= 1

\* a forced call lost its insert against the live record that replaced a
\* record removed by cleanup
C24_Witness ==
    \E c \in Callers :
        /\ pc[c] = "idle" /\ force_new[c]
        /\ outcome[c].kind = "integrity_error"
        /\ ~NoRowDeleted
        /\ Cardinality(LiveRecords(request_id[c])) = 1

\* C25: a COMPLETED record that stays in the store is left as it is by every
\* step: duplicate calls, retry increments, late writes and forced calls
\* change neither its status nor its result.
C25_CompletedIsFinal ==
    [][\A i \in Ids :
        (operations[i].operation_status = COMPLETED
         /\ i \in DOMAIN operations')
        => operations'[i] = operations[i]]_vars

\* a COMPLETED record has met a duplicate call and a forced call
C25_Witness ==
    \E c, d \in Callers : \E i \in Ids :
        /\ operations[i].operation_status = COMPLETED
        /\ pc[c] = "idle" /\ outcome[c] = Outcome("cached", i, operations[i].result)
        /\ pc[d] = "idle" /\ force_new[d]
        /\ outcome[d].kind = "integrity_error"

\* ---- fingerprints of different parameters ----
\* two structures of the same shape that differ in a leaf: in its type or in
\* its text
RECURSIVE DifferInLeaf(_, _)
DifferInLeaf(p, q) ==
    IF p.t = "dict" /\ q.t = "dict"
    THEN /\ Len(p.items) = Len(q.items)
         /\ \A i \in 1..Len(p.items) : \E j \in 1..Len(q.items) :
                p.items[i][1] = q.items[j][1]
         /\ \E i \in 1..Len(p.items) : \E j \in 1..Len(q.items) :
                /\ p.items[i][1] = q.items[j][1]
                /\ DifferInLeaf(p.items[i][2], q.items[j][2])
    ELSE /\ p.t # "dict" /\ q.t # "dict"
         /\ (p.t # q.t \/ p.text # q.text)

\* C26: two parameter structures that differ in a leaf value, be it only in
\* its type, get different request ids for the same operation_type.
C26_FingerprintSensitivity ==
    (Generated /\ DifferInLeaf(fingerprints.parameters[1],
                                fingerprints.parameters[2]))
    => fingerprints.request_id[1] # fingerprints.request_id[2]

\* ---- retries ----
\* C27: a non-forced call whose lookup finds the QUEUED record a retry has
\* left, with no handler executing it, does not return leaving the record
\* as it found it: the record is on its way to RUNNING.
C27_RetriedRecordRuns ==
    [][\A c \in Callers : \A i \in Ids :
        (/\ FindsRow(c, i)
         /\ operations[i].operation_status = QUEUED
         /\ operations[i].retry_count >= 1
         /\ \A d \in Callers : ~Executing(d, i))
        => (pc'[c] # "idle" \/ operations' # operations)]_vars

\* ---- idempotency disabled ----
\* C28: with enable_idempotency False, a call goes to operation_func without
\* a lookup and without a write, and every call invokes it once: k calls that
\* have returned have invoked it k times.
C28_DisabledRunsDirectly ==
    ~enable_idempotency
    => /\ operations = <<>> /\ nextId = 1
       /\ \A c \in Callers : pc[c] \in {"idle", "direct"}
       /\ \A c \in Callers : (pc[c] = "idle" /\ outcome[c].kind # "never")
                                 => (invoked[c] /\ attempt[c] >= 1)
       /\ calls[1] + Cardinality({c \in Callers : pc[c] = "direct"}) = started

\* MaxCalls identical non-forced calls have returned with idempotency
\* disabled
C28_Witness ==
    /\ ~enable_idempotency /\ ~anyForced /\ AllIdle
    /\ started = MaxCalls
    /\ calls[1] = MaxCalls

C30_ReadOnlyCall ==
    [][\A c \in Callers :
        /\ (pc[c] = "idle" /\ pc'[c] = "lookup") => operations' = operations
        /\ \A i \in Ids :
            (FindsRow(c, i)
             /\ operations[i].operation_status \in {COMPLETED, RUNNING})
            => /\ pc'[c] = "idle"
               /\ operations' = operations
               /\ nextId' = nextId]_vars

\* a duplicate call was answered in_progress from a RUNNING record that
\* carries published services
C30_Witness ==
    \E c \in Callers : \E i \in Ids :
        /\ pc[c] = "idle"
        /\ outcome[c] = Outcome("in_progress", i, NullJson)
        /\ operations[i].operation_status = RUNNING
        /\ Len(operations[i].published_services) >= 1

====
